---------------------------- MODULE Spec2Model ----------------------------
(***************************************************************************)
(* Model of src/utils/optimizers.py: the GradientDescent ("Plain"),        *)
(* Momentum and Adam optimizers of tinynet.                                *)
(*                                                                         *)
(* Numbers are exact rationals [n, d] in lowest terms with d > 0, so the   *)
(* arithmetic of the update rules is the arithmetic of the code without    *)
(* the rounding of IEEE doubles.  An ndarray is a sequence of rationals;   *)
(* its shape is its length.  np.sqrt is exact on squares of rationals and  *)
(* rounded down to a multiple of 1/2 otherwise.                                  *)
(*                                                                         *)
(* `layer.params[k] -= e` on an ndarray is an in-place subtraction: the    *)
(* name `param`, bound to layer.params[k] before it, denotes the same      *)
(* array object and therefore its new contents afterwards.                 *)
(***************************************************************************)
EXTENDS Integers, Sequences, FiniteSets, TLC

(***************************************************************************)
(* Rational arithmetic                                                     *)
(***************************************************************************)
Abs(a) == IF a < 0 THEN -a ELSE a

RECURSIVE Gcd(_, _)
Gcd(a, b) == IF b = 0 THEN a ELSE Gcd(b, a % b)

Rat(n, d) ==
    LET g == Gcd(Abs(n), Abs(d))
        s == IF d < 0 THEN -1 ELSE 1
    IN  [n |-> s * (n \div g), d |-> s * (d \div g)]

Zero == Rat(0, 1)
One == Rat(1, 1)

RAdd(a, b) ==
    LET g == Gcd(a.d, b.d)
    IN  Rat(a.n * (b.d \div g) + b.n * (a.d \div g), a.d * (b.d \div g))

RNeg(a) == [n |-> -a.n, d |-> a.d]

RSub(a, b) == RAdd(a, RNeg(b))

RMul(a, b) ==
    LET g1 == Gcd(Abs(a.n), b.d)
        g2 == Gcd(Abs(b.n), a.d)
    IN  Rat((a.n \div g1) * (b.n \div g2), (a.d \div g2) * (b.d \div g1))

\* a / b for b # 0
RDiv(a, b) == RMul(a, Rat(b.d, b.n))

RECURSIVE RPow(_, _)
RPow(a, t) == IF t = 0 THEN One ELSE RMul(a, RPow(a, t - 1))

\* the largest r with r * r <= x
RECURSIVE ISqrtFrom(_, _)
ISqrtFrom(x, r) == IF (r + 1) * (r + 1) > x THEN r ELSE ISqrtFrom(x, r + 1)

ISqrt(x) == ISqrtFrom(x, 0)

IsSquare(x) == ISqrt(x) * ISqrt(x) = x

\* np.sqrt of a non-negative number
RSqrt(a) ==
    IF IsSquare(a.n) /\ IsSquare(a.d)
    THEN Rat(ISqrt(a.n), ISqrt(a.d))
    ELSE Rat(ISqrt((a.n * 4) \div a.d), 2)

(***************************************************************************)
(* ndarray arithmetic (element-wise, scalar broadcast)                     *)
(***************************************************************************)
Shape(a) == Len(a)

\* np.zeros(shape)
Zeros(shape) == [i \in 1..shape |-> Zero]

ArrAdd(a, b) == [i \in 1..Len(a) |-> RAdd(a[i], b[i])]

ArrSub(a, b) == [i \in 1..Len(a) |-> RSub(a[i], b[i])]

ArrDiv(a, b) == [i \in 1..Len(a) |-> RDiv(a[i], b[i])]

\* r * a and a / r for a scalar r
ArrScale(r, a) == [i \in 1..Len(a) |-> RMul(r, a[i])]

ArrDivScalar(a, r) == [i \in 1..Len(a) |-> RDiv(a[i], r)]

ArrAddScalar(a, r) == [i \in 1..Len(a) |-> RAdd(a[i], r)]

\* np.square, np.sqrt
ArrSquare(a) == [i \in 1..Len(a) |-> RMul(a[i], a[i])]

ArrSqrt(a) == [i \in 1..Len(a) |-> RSqrt(a[i])]


(***************************************************************************)
(* Hyper-parameters of the optimizer instances modelled                    *)
(***************************************************************************)
\* Momentum(lr): beta keeps its default 0.9
Beta == Rat(9, 10)

\* Adam(lr, beta2 = 0.5, eps = 0.5): beta1 keeps its default 0.9; beta2 and
\* eps are constructor arguments
Beta1 == Rat(9, 10)

Beta2 == Rat(1, 2)

Eps == Rat(1, 2)

\* the learning rates an optimizer is constructed with
LearningRates == {Rat(1, 10)}

Kinds == {"Plain", "Momentum", "Adam"}

(***************************************************************************)
(* Layers (external collaborator: owns params and grads)                   *)
(***************************************************************************)
\* layer.grads key of parameter key k
GradKey(k) == "d" \o k

WInit == <<Rat(1, 1), Rat(2, 1)>>

W2Init == <<Rat(-1, 1), Rat(1, 2)>>

BInit == <<Rat(1, 1)>>

\* gradient values one backward pass leaves in layer.grads
GradScenarios ==
    { [dW |-> <<Rat(1, 10), Rat(2, 10)>>, db |-> <<Rat(1, 1)>>],
      [dW |-> <<Rat(-1, 1), Rat(0, 1)>>, db |-> <<Rat(2, 1)>>] }

\* keys: iteration order of the params dict
MkLayer(keys, params, gkeys) ==
    [keys |-> keys, params |-> params,
     grads |-> [g \in gkeys |-> Zeros(Shape(params[CHOOSE k \in DOMAIN params : GradKey(k) = g]))]]

LayerNone == MkLayer(<<>>, [k \in {} |-> <<>>], {})

LayerW == MkLayer(<<"W">>, [k \in {"W"} |-> WInit], {"dW"})

LayerW2 == MkLayer(<<"W">>, [k \in {"W"} |-> W2Init], {"dW"})

LayerWb == MkLayer(<<"W", "b">>, [k \in {"W", "b"} |-> IF k = "W" THEN WInit ELSE BInit], {"dW", "db"})

LayerbW == MkLayer(<<"b", "W">>, [k \in {"W", "b"} |-> IF k = "W" THEN W2Init ELSE BInit], {"dW", "db"})

\* a layer whose backward pass leaves a gradient key out
LayerWbNoDb == MkLayer(<<"W", "b">>, [k \in {"W", "b"} |-> IF k = "W" THEN WInit ELSE BInit], {"dW"})

\* the layer lists a training loop hands to the optimizer
LayerLists ==
    { <<>>, <<LayerW>>, <<LayerNone, LayerbW>>, <<LayerWb, LayerW2>>,
      <<LayerW2, LayerWbNoDb>> }

\* layer.grads after a backward pass with the gradients of scen
SetGrads(ls, scen) ==
    [l \in 1..Len(ls) |-> [ls[l] EXCEPT !.grads = [g \in DOMAIN ls[l].grads |-> scen[g]]]]

(***************************************************************************)
(* Regularizers (external collaborator)                                    *)
(***************************************************************************)
NoReg == [kind |-> "None", lmbda |-> Zero]

RegL2 == [kind |-> "L2", lmbda |-> Rat(5, 1)]

RegL1 == [kind |-> "L1", lmbda |-> Rat(5, 1)]

Regularizers == {NoReg, RegL2, RegL1}

\* isinstance(regularizer, regularizers.L2)
IsL2(reg) == reg.kind = "L2"

\* regularizers.L2.compute_term_delta(W, m)
ComputeTermDelta(reg, x, m) == ArrScale(RDiv(reg.lmbda, Rat(m, 1)), x)

(***************************************************************************)
(* The optimizers.  A store st holds what one update_params call reads and *)
(* writes: the layers, the optimizer's moment lists (initialized is FALSE  *)
(* while the attributes layer_v / layer_s do not exist), the exception the *)
(* call raised ("none" while it runs) and the calls it made to             *)
(* regularizer.compute_term_delta.                                         *)
(***************************************************************************)
\* the contents of the array named `param` once `layer.params[k] -= ...` has
\* run: ndarray.__isub__ works in place and param is the same object
AliasedParam(before, after) == after

\* WeightDecay with the isinstance test replaced by `regularizer is not None`
WeightDecayAnyRegularizer(lr, st, l, k, param, m, reg) ==
    IF k = "W" /\ reg.kind # "None"
    THEN [st EXCEPT
            !.layers[l].params[k] = ArrSub(@, ArrScale(lr, ComputeTermDelta(reg, param, m))),
            !.decays = Append(@, [layer |-> l, key |-> k, x |-> param, m |-> m])]
    ELSE st

\* WeightDecay applied to the first weight of a call only
WeightDecayOncePerCall(lr, st, l, k, param, m, reg) ==
    IF k = "W" /\ IsL2(reg) /\ st.decays = <<>>
    THEN [st EXCEPT
            !.layers[l].params[k] = ArrSub(@, ArrScale(lr, ComputeTermDelta(reg, param, m))),
            !.decays = Append(@, [layer |-> l, key |-> k, x |-> param, m |-> m])]
    ELSE st

\* if k is 'W': if isinstance(regularizer, regularizers.L2): weight decay.
\* `k is 'W'` compares identities; CPython keeps a single object for every
\* one-character string, so it holds exactly when k == 'W'
WeightDecay(lr, st, l, k, param, m, reg) ==
    IF k = "W" /\ IsL2(reg)
    THEN [st EXCEPT
            !.layers[l].params[k] = ArrSub(@, ArrScale(lr, ComputeTermDelta(reg, param, m))),
            !.decays = Append(@, [layer |-> l, key |-> k, x |-> param, m |-> m])]
    ELSE st

\* GDStep with the gradient step added instead of subtracted
GDStepAddsGradient(lr, st, l, k, m, reg) ==
    LET layer == st.layers[l]
        before == layer.params[k]
    IN  IF GradKey(k) \notin DOMAIN layer.grads
        THEN [st EXCEPT !.err = "KeyError"]
        ELSE LET grad == layer.grads[GradKey(k)]
                 st1 == [st EXCEPT !.layers[l].params[k] = ArrAdd(@, ArrScale(lr, grad))]
                 param == AliasedParam(before, st1.layers[l].params[k])
             IN  WeightDecay(lr, st1, l, k, param, m, reg)

\* GradientDescent.update_params: the body of the loop over k
GDStep(lr, st, l, k, m, reg) ==
    LET layer == st.layers[l]
        before == layer.params[k]
    IN  IF GradKey(k) \notin DOMAIN layer.grads
        THEN [st EXCEPT !.err = "KeyError"]
        ELSE LET grad == layer.grads[GradKey(k)]
                 st1 == [st EXCEPT !.layers[l].params[k] = ArrSub(@, ArrScale(lr, grad))]
                 param == AliasedParam(before, st1.layers[l].params[k])
             IN  WeightDecay(lr, st1, l, k, param, m, reg)

\* BiasCorrected without the correction
BiasCorrectedNot(v, beta, t) == v

\* v_corrected = v['d' + k] / (1 - self.beta ** t)
BiasCorrected(v, beta, t) == ArrDivScalar(v, RSub(One, RPow(beta, t)))

\* MovingAverage that does not decay the old average
MovingAverageNoDecay(beta, v, grad) == ArrAdd(v, ArrScale(RSub(One, beta), grad))

\* the moment updates: beta * v + (1 - beta) * grad
MovingAverage(beta, v, grad) ==
    ArrAdd(ArrScale(beta, v), ArrScale(RSub(One, beta), grad))

\* MomentumStep with the L2 term folded into the gradient before the velocity
\* is accumulated
MomentumStepCoupled(lr, st, l, k, t, m, reg) ==
    LET layer == st.layers[l]
        gk == GradKey(k)
    IN  IF gk \notin DOMAIN layer.grads
        THEN [st EXCEPT !.err = "KeyError"]
        ELSE LET coupled == k = "W" /\ IsL2(reg)
                 grad == IF coupled
                         THEN ArrAdd(layer.grads[gk], ComputeTermDelta(reg, layer.params[k], m))
                         ELSE layer.grads[gk]
                 v == MovingAverage(Beta, st.layer_v[l][gk], grad)
                 v_corrected == BiasCorrected(v, Beta, t)
             IN  [st EXCEPT !.layer_v[l][gk] = v,
                            !.layers[l].params[k] = ArrSub(@, ArrScale(lr, v_corrected)),
                            !.decays = IF coupled
                                       THEN Append(@, [layer |-> l, key |-> k,
                                                       x |-> layer.params[k], m |-> m])
                                       ELSE @]

\* Momentum.update_params: the body of the loop over k
MomentumStep(lr, st, l, k, t, m, reg) ==
    LET layer == st.layers[l]
        before == layer.params[k]
        gk == GradKey(k)
    IN  IF gk \notin DOMAIN layer.grads
        THEN [st EXCEPT !.err = "KeyError"]
        ELSE LET grad == layer.grads[gk]
                 v == MovingAverage(Beta, st.layer_v[l][gk], grad)
                 v_corrected == BiasCorrected(v, Beta, t)
                 st1 == [st EXCEPT !.layer_v[l][gk] = v,
                                   !.layers[l].params[k] = ArrSub(@, ArrScale(lr, v_corrected))]
                 param == AliasedParam(before, st1.layers[l].params[k])
             IN  WeightDecay(lr, st1, l, k, param, m, reg)

\* lr * v_corrected / (np.sqrt(s_corrected) + self.eps)
AdamDelta(lr, v_corrected, s_corrected) ==
    ArrDiv(ArrScale(lr, v_corrected), ArrAddScalar(ArrSqrt(s_corrected), Eps))

\* Adam.update_params: the body of the loop over k
AdamStep(lr, st, l, k, t, m, reg) ==
    LET layer == st.layers[l]
        before == layer.params[k]
        gk == GradKey(k)
    IN  IF gk \notin DOMAIN layer.grads
        THEN [st EXCEPT !.err = "KeyError"]
        ELSE LET grad == layer.grads[gk]
                 v == MovingAverage(Beta1, st.layer_v[l][gk], grad)
                 s == MovingAverage(Beta2, st.layer_s[l][gk], ArrSquare(grad))
                 v_corrected == BiasCorrected(v, Beta1, t)
                 s_corrected == BiasCorrected(s, Beta2, t)
                 st1 == [st EXCEPT !.layer_v[l][gk] = v,
                                   !.layer_s[l][gk] = s,
                                   !.layers[l].params[k] = ArrSub(@, AdamDelta(lr, v_corrected, s_corrected))]
                 param == AliasedParam(before, st1.layers[l].params[k])
             IN  WeightDecay(lr, st1, l, k, param, m, reg)

\* one iteration of `for k in layer.params` of the optimizer opt
StepKey(opt, st, l, k, t, m, reg) ==
    CASE opt.kind = "Plain" -> GDStep(opt.lr, st, l, k, m, reg)
      [] opt.kind = "Momentum" -> MomentumStep(opt.lr, st, l, k, t, m, reg)
      [] opt.kind = "Adam" -> AdamStep(opt.lr, st, l, k, t, m, reg)

\* the iterations for the (layer, key) pairs of `pairs`, in that order; an
\* exception ends the call
RECURSIVE RunPairs(_, _, _, _, _, _)
RunPairs(opt, st, pairs, t, m, reg) ==
    IF pairs = <<>> \/ st.err # "none"
    THEN st
    ELSE RunPairs(opt, StepKey(opt, st, Head(pairs)[1], Head(pairs)[2], t, m, reg),
                  Tail(pairs), t, m, reg)

\* for k in layer.params
LayerPairs(ls, l) == [i \in 1..Len(ls[l].keys) |-> <<l, ls[l].keys[i]>>]

\* ZeroMoments filled with ones
OnesMoments(ls) ==
    [l \in 1..Len(ls) |->
        [g \in {GradKey(k) : k \in DOMAIN ls[l].params} |->
            [i \in 1..Shape(ls[l].params[CHOOSE k \in DOMAIN ls[l].params : GradKey(k) = g]) |-> One]]]

\* v / s of init_params: one np.zeros(layer.params[k].shape) per key 'd' + k
ZeroMoments(ls) ==
    [l \in 1..Len(ls) |->
        [g \in {GradKey(k) : k \in DOMAIN ls[l].params} |->
            Zeros(Shape(ls[l].params[CHOOSE k \in DOMAIN ls[l].params : GradKey(k) = g]))]]

\* RunLayers that creates the missing moment lists instead of failing
RECURSIVE RunLayersLazyInit(_, _, _, _, _, _)
RunLayersLazyInit(opt, st, l, t, m, reg) ==
    IF l > Len(st.layers) \/ st.err # "none"
    THEN st
    ELSE IF opt.kind # "Plain" /\ ~st.initialized
         THEN RunLayersLazyInit(opt, [st EXCEPT !.initialized = TRUE,
                                                !.layer_v = ZeroMoments(st.layers),
                                                !.layer_s = ZeroMoments(st.layers)],
                                l, t, m, reg)
         ELSE RunLayersLazyInit(opt, RunPairs(opt, st, LayerPairs(st.layers, l), t, m, reg),
                                l + 1, t, m, reg)

\* for l, layer in enumerate(layers): v = self.layer_v[l] ...
RECURSIVE RunLayers(_, _, _, _, _, _)
RunLayers(opt, st, l, t, m, reg) ==
    IF l > Len(st.layers) \/ st.err # "none"
    THEN st
    ELSE IF opt.kind # "Plain" /\ ~st.initialized
         THEN [st EXCEPT !.err = "AttributeError"]
         ELSE RunLayers(opt, RunPairs(opt, st, LayerPairs(st.layers, l), t, m, reg),
                        l + 1, t, m, reg)

\* UpdateParamsResult that restores the store when the call raises
UpdateParamsResultRollback(opt, st, t, m, reg) ==
    LET r == RunLayers(opt, [st EXCEPT !.err = "none", !.decays = <<>>], 1, t, m, reg)
    IN  IF r.err = "none" THEN r ELSE [st EXCEPT !.err = r.err, !.decays = <<>>]

\* one whole update_params call on the store st
UpdateParamsResult(opt, st, t, m, reg) ==
    RunLayers(opt, [st EXCEPT !.err = "none", !.decays = <<>>], 1, t, m, reg)

\* Momentum.init_params / Adam.init_params on the store st
InitParamsResult(opt, st) ==
    [st EXCEPT !.initialized = TRUE,
               !.layer_v = ZeroMoments(st.layers),
               !.layer_s = IF opt.kind = "Adam" THEN ZeroMoments(st.layers) ELSE @]

(***************************************************************************)
(* State                                                                   *)
(***************************************************************************)
VARIABLES
    optimizer,    \* [kind, lr]: the optimizer instance
    layers,       \* the layer list of the training loop
    layer_v,      \* self.layer_v
    layer_s,      \* self.layer_s
    initialized,  \* whether self.layer_v (and self.layer_s) exist
    err,          \* the exception the last update_params call raised, or "none"
    decays,       \* the compute_term_delta calls of the last update_params call
    reference,    \* the same run with regularizer=None in every call
    hist          \* the update_params calls made: arguments, store before and after

vars == <<optimizer, layers, layer_v, layer_s, initialized, err, decays, reference, hist>>

\* update_params calls in one run
MaxCalls == 2

\* the (batch size, regularizer) arguments of the calls
CallArgs == {<<1, NoReg>>, <<2, RegL2>>, <<2, RegL1>>}

Store ==
    [layers |-> layers, layer_v |-> layer_v, layer_s |-> layer_s,
     initialized |-> initialized, err |-> err, decays |-> decays]

SetStore(st) ==
    /\ layers' = st.layers
    /\ layer_v' = st.layer_v
    /\ layer_s' = st.layer_s
    /\ initialized' = st.initialized
    /\ err' = st.err
    /\ decays' = st.decays

Init ==
    /\ optimizer \in [kind : Kinds, lr : LearningRates]
    /\ layers \in {SetGrads(ls, scen) : ls \in LayerLists, scen \in GradScenarios}
    /\ layer_v = <<>>
    /\ layer_s = <<>>
    /\ initialized = FALSE
    /\ err = "none"
    /\ decays = <<>>
    /\ reference = Store
    /\ hist = <<>>

\* the training loop's step counter: the 1-based count of update calls
StepIndex == Len(hist) + 1

\* the layers' backward pass stores new gradients
Backward(scen) ==
    /\ Len(hist) < MaxCalls
    /\ layers' = SetGrads(layers, scen)
    /\ layers' # layers
    /\ reference' = [reference EXCEPT !.layers = SetGrads(@, scen)]
    /\ UNCHANGED <<optimizer, layer_v, layer_s, initialized, err, decays, hist>>

\* init_params is called once (before or after a first, failing, update)
InitParams ==
    /\ ~initialized
    /\ \E st \in {InitParamsResult(optimizer, Store)} : SetStore(st)
    /\ reference' = InitParamsResult(optimizer, reference)
    /\ UNCHANGED <<optimizer, hist>>

MomentumInitParams ==
    /\ optimizer.kind = "Momentum"
    /\ InitParams

AdamInitParams ==
    /\ optimizer.kind = "Adam"
    /\ InitParams

UpdateParams(m, reg) ==
    /\ Len(hist) < MaxCalls
    /\ \E after \in {UpdateParamsResult(optimizer, Store, StepIndex, m, reg)} :
           /\ SetStore(after)
           /\ hist' = Append(hist, [t |-> StepIndex, m |-> m, reg |-> reg,
                                    before |-> Store, after |-> after])
    /\ reference' = UpdateParamsResult(optimizer, reference, StepIndex, m, NoReg)
    /\ UNCHANGED optimizer

GDUpdateParams(m, reg) ==
    /\ optimizer.kind = "Plain"
    /\ UpdateParams(m, reg)

MomentumUpdateParams(m, reg) ==
    /\ optimizer.kind = "Momentum"
    /\ UpdateParams(m, reg)

AdamUpdateParams(m, reg) ==
    /\ optimizer.kind = "Adam"
    /\ UpdateParams(m, reg)

Next ==
    \/ \E scen \in GradScenarios : Backward(scen)
    \/ MomentumInitParams
    \/ AdamInitParams
    \/ \E a \in CallArgs : GDUpdateParams(a[1], a[2])
    \/ \E a \in CallArgs : MomentumUpdateParams(a[1], a[2])
    \/ \E a \in CallArgs : AdamUpdateParams(a[1], a[2])

Spec == Init /\ [][Next]_vars

(***************************************************************************)
(* Vocabulary of the properties                                            *)
(***************************************************************************)
Calls == 1..Len(hist)

\* hist only grows and every reachable state is checked, so a property of
\* each call is checked on the call that has just returned: the last entry
\* of hist (for two calls in a row, the one before it and it)
Latest == {Len(hist)} \cap Calls

LatestTwo == {Len(hist) - 1} \cap Calls

LayersOf(h) == 1..Len(h.before.layers)

KeysOf(h, l) == DOMAIN h.before.layers[l].params

\* the call returned normally
Completed(h) == h.after.err = "none"

\* the optimizer's state attributes exist when the call starts
HasState(h) == optimizer.kind = "Plain" \/ h.before.initialized

\* what the call subtracted from parameter k of layer l
Subtracted(h, l, k) == ArrSub(h.before.layers[l].params[k], h.after.layers[l].params[k])

IsZeroArr(a) == \A i \in 1..Len(a) : a[i] = Zero

\* the same call made with regularizer=None
WithoutRegularizer(h) == UpdateParamsResult(optimizer, h.before, h.t, h.m, NoReg)

\* the (layer, key) pairs of a layer list, in the order update_params visits them
RECURSIVE PairsFrom(_, _)
PairsFrom(ls, l) ==
    IF l > Len(ls) THEN <<>> ELSE LayerPairs(ls, l) \o PairsFrom(ls, l + 1)

CodeOrder(ls) == PairsFrom(ls, 1)

Perms(S) ==
    {p \in [1..Cardinality(S) -> S] : \A i, j \in 1..Cardinality(S) : p[i] = p[j] => i = j}

\* update_params with its iterations run in the order `pairs`
UpdateInOrder(opt, st, pairs, t, m, reg) ==
    LET st0 == [st EXCEPT !.err = "none", !.decays = <<>>]
    IN  IF opt.kind # "Plain" /\ ~st.initialized
        THEN IF Len(st.layers) > 0 THEN [st0 EXCEPT !.err = "AttributeError"] ELSE st0
        ELSE RunPairs(opt, st0, pairs, t, m, reg)

\* positions of CodeOrder whose gradient key is missing from layer.grads
MissingAt(ls) ==
    {i \in 1..Len(CodeOrder(ls)) :
        GradKey(CodeOrder(ls)[i][2]) \notin DOMAIN ls[CodeOrder(ls)[i][1]].grads}

FirstMissing(ls) == CHOOSE i \in MissingAt(ls) : \A j \in MissingAt(ls) : i <= j

(***************************************************************************)
(* C1: Plain optimizer, no regularizer: every parameter after the call is  *)
(* its value before the call minus learning_rate times grads['d' + k];     *)
(* W = [1, 2], dW = [0.1, 0.2], lr = 0.1 gives W = [0.99, 1.98].           *)
(***************************************************************************)
C1_PlainSubtractsLrTimesGrad ==
    \A i \in Latest :
        LET h == hist[i]
        IN  (optimizer.kind = "Plain" /\ h.reg = NoReg /\ Completed(h)) =>
                \A l \in LayersOf(h) : \A k \in KeysOf(h, l) :
                    /\ h.after.layers[l].params[k] =
                           ArrSub(h.before.layers[l].params[k],
                                  ArrScale(optimizer.lr, h.before.layers[l].grads[GradKey(k)]))
                    /\ ( /\ optimizer.lr = Rat(1, 10)
                         /\ h.before.layers[l].params[k] = <<Rat(1, 1), Rat(2, 1)>>
                         /\ h.before.layers[l].grads[GradKey(k)] = <<Rat(1, 10), Rat(2, 10)>> )
                       => h.after.layers[l].params[k] = <<Rat(99, 100), Rat(198, 100)>>

C1_Witness ==
    \E i \in Calls :
        /\ optimizer.kind = "Plain"
        /\ hist[i].reg = NoReg
        /\ Completed(hist[i])
        /\ Len(hist[i].before.layers) = 1
        /\ hist[i].before.layers[1].params = [k \in {"W"} |-> <<Rat(1, 1), Rat(2, 1)>>]
        /\ hist[i].before.layers[1].grads = [g \in {"dW"} |-> <<Rat(1, 10), Rat(2, 10)>>]
        /\ hist[i].after.layers[1].params["W"] = <<Rat(99, 100), Rat(198, 100)>>

(***************************************************************************)
(* C2: with an L2 regularizer and key "W", lr * compute_term_delta(x, m)   *)
(* is subtracted exactly once per call and x is the value the parameter    *)
(* had before the gradient step of that call.                              *)
(***************************************************************************)
C2_DecayTakesPreUpdateValue ==
    \A i \in Latest :
        LET h == hist[i]
        IN  /\ \A j \in 1..Len(h.after.decays) :
                   h.after.decays[j].x =
                       h.before.layers[h.after.decays[j].layer].params[h.after.decays[j].key]
            /\ (IsL2(h.reg) /\ Completed(h)) =>
                   \A l \in LayersOf(h) :
                       "W" \in KeysOf(h, l) =>
                           Cardinality({j \in 1..Len(h.after.decays) :
                                           /\ h.after.decays[j].layer = l
                                           /\ h.after.decays[j].key = "W"}) = 1

(***************************************************************************)
(* C3: compute_term_delta is applied to a key iff the key is "W" and the   *)
(* regularizer is an L2; for any other key, and for a regularizer that is  *)
(* absent or of another kind, the call raises nothing more and leaves the  *)
(* parameters as the same call without a regularizer leaves them.          *)
(***************************************************************************)
C3_DecayOnlyForWAndL2 ==
    /\ err = reference.err
    /\ (\A i \in Calls : ~IsL2(hist[i].reg)) => layers = reference.layers
    /\ \A l \in 1..Len(layers) : \A k \in DOMAIN layers[l].params :
           k # "W" => layers[l].params[k] = reference.layers[l].params[k]
    /\ \A i \in Latest :
           LET h == hist[i]
           IN  /\ \A j \in 1..Len(h.after.decays) :
                      h.after.decays[j].key = "W" /\ IsL2(h.reg)
               /\ (IsL2(h.reg) /\ Completed(h)) =>
                      \A l \in LayersOf(h) :
                          "W" \in KeysOf(h, l) =>
                              \E j \in 1..Len(h.after.decays) : h.after.decays[j].layer = l
               /\ ~IsL2(h.reg) =>
                      LET plain == WithoutRegularizer(h)
                      IN  h.after.err = plain.err /\ h.after.layers = plain.layers

C3_Witness ==
    /\ \E i \in Calls :
           /\ hist[i].reg = RegL1
           /\ Completed(hist[i])
           /\ \E l \in LayersOf(hist[i]) :
                  /\ "W" \in KeysOf(hist[i], l)
                  /\ ~IsZeroArr(Subtracted(hist[i], l, "W"))
    /\ \E i \in Calls :
           /\ IsL2(hist[i].reg)
           /\ Completed(hist[i])
           /\ \E l \in LayersOf(hist[i]) : {"W", "b"} \subseteq KeysOf(hist[i], l)
           /\ hist[i].after.decays # <<>>

(***************************************************************************)
(* C4: Momentum, zero velocity after init_params, one update_params call   *)
(* with step_index = 1: v_corrected equals the gradient for every key, and *)
(* without a regularizer the parameters equal those the Plain optimizer    *)
(* with the same learning rate produces from the same parameters and       *)
(* gradients.                                                              *)
(***************************************************************************)
C4_FirstMomentumStepIsPlainStep ==
    \A i \in Latest :
        LET h == hist[i]
        IN  ( /\ optimizer.kind = "Momentum"
              /\ h.t = 1
              /\ h.before.initialized
              /\ h.before.layer_v = ZeroMoments(h.before.layers)
              /\ Completed(h) ) =>
                /\ \A l \in LayersOf(h) : \A k \in KeysOf(h, l) :
                       BiasCorrected(h.after.layer_v[l][GradKey(k)], Beta, 1) =
                           h.before.layers[l].grads[GradKey(k)]
                /\ h.reg = NoReg =>
                       h.after.layers =
                           UpdateParamsResult([kind |-> "Plain", lr |-> optimizer.lr],
                                              h.before, 1, h.m, NoReg).layers

C4_Witness ==
    \E i \in Calls :
        /\ optimizer.kind = "Momentum"
        /\ hist[i].t = 1
        /\ hist[i].before.initialized
        /\ hist[i].before.layer_v = ZeroMoments(hist[i].before.layers)
        /\ hist[i].reg = NoReg
        /\ Completed(hist[i])
        /\ \E l \in LayersOf(hist[i]) : \E k \in KeysOf(hist[i], l) :
               ~IsZeroArr(Subtracted(hist[i], l, k))

(***************************************************************************)
(* C5 as stated: two update_params calls in a row, identical gradients, no *)
(* regularizer, step_index 1 then 2: for Momentum and Adam the second call *)
(* subtracts an amount different from the first call's, for Plain the same *)
(* amount.  (Stated for parameters whose gradient is not zero.)            *)
(***************************************************************************)
TwoInARow(i) ==
    /\ i + 1 \in Calls
    /\ hist[i].t = 1
    /\ hist[i + 1].t = 2
    /\ hist[i].reg = NoReg
    /\ hist[i + 1].reg = NoReg
    /\ HasState(hist[i])
    /\ Completed(hist[i])
    /\ Completed(hist[i + 1])
    /\ hist[i + 1].before.layer_v = hist[i].after.layer_v
    /\ hist[i + 1].before.layer_s = hist[i].after.layer_s
    /\ \A l \in LayersOf(hist[i]) :
           hist[i + 1].before.layers[l].grads = hist[i].before.layers[l].grads

C5_SecondStepDiffers ==
    \A i \in LatestTwo :
        TwoInARow(i) =>
            \A l \in LayersOf(hist[i]) : \A k \in KeysOf(hist[i], l) :
                ~IsZeroArr(hist[i].before.layers[l].grads[GradKey(k)]) =>
                    IF optimizer.kind = "Plain"
                    THEN Subtracted(hist[i + 1], l, k) = Subtracted(hist[i], l, k)
                    ELSE Subtracted(hist[i + 1], l, k) # Subtracted(hist[i], l, k)

(***************************************************************************)
(* C5 as amended: with the moments zero before the first of the two calls, *)
(* all three optimizers subtract the same amount in both calls (the bias   *)
(* correction cancels the accumulation of a constant gradient); what       *)
(* differs for Momentum and Adam is the moment buffers after the two       *)
(* calls, for every key whose gradient is not zero.                        *)
(***************************************************************************)
C5_SecondStepRepeatsStateAccumulates ==
    \A i \in LatestTwo :
        ( /\ TwoInARow(i)
          /\ optimizer.kind # "Plain" => hist[i].before.layer_v = ZeroMoments(hist[i].before.layers)
          /\ optimizer.kind = "Adam" => hist[i].before.layer_s = ZeroMoments(hist[i].before.layers) ) =>
            \A l \in LayersOf(hist[i]) : \A k \in KeysOf(hist[i], l) :
                /\ Subtracted(hist[i + 1], l, k) = Subtracted(hist[i], l, k)
                /\ ( /\ optimizer.kind # "Plain"
                     /\ ~IsZeroArr(hist[i].before.layers[l].grads[GradKey(k)]) ) =>
                       hist[i + 1].after.layer_v[l][GradKey(k)] # hist[i].after.layer_v[l][GradKey(k)]
                /\ ( /\ optimizer.kind = "Adam"
                     /\ ~IsZeroArr(hist[i].before.layers[l].grads[GradKey(k)]) ) =>
                       hist[i + 1].after.layer_s[l][GradKey(k)] # hist[i].after.layer_s[l][GradKey(k)]

C5_Witness ==
    \E i \in Calls :
        /\ TwoInARow(i)
        /\ optimizer.kind = "Adam"
        /\ hist[i].before.layer_v = ZeroMoments(hist[i].before.layers)
        /\ hist[i].before.layer_s = ZeroMoments(hist[i].before.layers)
        /\ \E l \in LayersOf(hist[i]) : \E k \in KeysOf(hist[i], l) :
               /\ ~IsZeroArr(Subtracted(hist[i], l, k))
               /\ Subtracted(hist[i + 1], l, k) = Subtracted(hist[i], l, k)

(***************************************************************************)
(* C6: Momentum and Adam: update_params on a non-empty layer list before   *)
(* init_params was ever called fails with a missing-state error, and no    *)
(* layer parameter has been modified.                                      *)
(***************************************************************************)
C6_UpdateBeforeInitFails ==
    \A i \in Latest :
        LET h == hist[i]
        IN  ( /\ optimizer.kind \in {"Momentum", "Adam"}
              /\ ~h.before.initialized
              /\ Len(h.before.layers) > 0 ) =>
                /\ h.after.err = "AttributeError"
                /\ h.after.layers = h.before.layers
                /\ ~h.after.initialized

C6_Witness ==
    \E i \in Calls :
        /\ optimizer.kind \in {"Momentum", "Adam"}
        /\ ~hist[i].before.initialized
        /\ \E l \in LayersOf(hist[i]) : \E k \in KeysOf(hist[i], l) :
               /\ GradKey(k) \in DOMAIN hist[i].before.layers[l].grads
               /\ ~IsZeroArr(hist[i].before.layers[l].grads[GradKey(k)])
        /\ hist[i].after.err = "AttributeError"

(***************************************************************************)
(* C7 as stated: once init_params has run, and after any number of         *)
(* update_params calls, each per-layer moment dictionary (v, and s for     *)
(* Adam) has exactly the key set of that layer's params.                   *)
(***************************************************************************)
MomentLists == IF optimizer.kind = "Adam" THEN {layer_v, layer_s} ELSE {layer_v}

C7_MomentKeysAreParamKeys ==
    initialized =>
        \A mom \in MomentLists :
            /\ Len(mom) = Len(layers)
            /\ \A l \in 1..Len(layers) : DOMAIN mom[l] = DOMAIN layers[l].params

(***************************************************************************)
(* C7 as amended: each per-layer moment dictionary has one buffer per      *)
(* parameter key k, stored under the gradient key 'd' + k, of the shape of *)
(* the parameter; all buffers are zero immediately after init_params.      *)
(***************************************************************************)
MomentsMatchParams ==
    initialized =>
        \A mom \in MomentLists :
            /\ Len(mom) = Len(layers)
            /\ \A l \in 1..Len(layers) :
                   /\ DOMAIN mom[l] = {GradKey(k) : k \in DOMAIN layers[l].params}
                   /\ Cardinality(DOMAIN mom[l]) = Cardinality(DOMAIN layers[l].params)
                   /\ \A k \in DOMAIN layers[l].params :
                          Shape(mom[l][GradKey(k)]) = Shape(layers[l].params[k])

MomentsAllZero ==
    \A mom \in MomentLists :
        \A l \in 1..Len(mom) : \A g \in DOMAIN mom[l] : IsZeroArr(mom[l][g])

C7_MomentsKeyedByGradKey ==
    /\ []MomentsMatchParams
    /\ [][(MomentumInitParams \/ AdamInitParams) => (initialized /\ MomentsAllZero)']_vars

C7_Witness ==
    /\ optimizer.kind = "Adam"
    /\ initialized
    /\ Len(hist) = MaxCalls
    /\ \E l \in 1..Len(layers) :
           /\ {"W", "b"} \subseteq DOMAIN layers[l].params
           /\ ~IsZeroArr(layer_v[l]["dW"])
           /\ ~IsZeroArr(layer_s[l]["db"])

(***************************************************************************)
(* C8: weight decay is decoupled from the moments: after any sequence of   *)
(* update_params calls the moment buffers (v, and s for Adam) are the same *)
(* whether or not an L2 regularizer was supplied; the regularizer changes  *)
(* only layer params, by a subtraction of its own made after the           *)
(* gradient-derived subtraction.                                           *)
(***************************************************************************)
C8_DecayDecoupledFromMoments ==
    /\ initialized = reference.initialized
    /\ layer_v = reference.layer_v
    /\ layer_s = reference.layer_s
    /\ \A i \in Latest :
           LET h == hist[i]
               plain == WithoutRegularizer(h)
           IN  /\ h.after.layer_v = plain.layer_v
               /\ h.after.layer_s = plain.layer_s
               /\ \A j \in 1..Len(h.after.decays) :
                      LET d == h.after.decays[j]
                      IN  h.after.layers[d.layer].params[d.key] =
                              ArrSub(plain.layers[d.layer].params[d.key],
                                     ArrScale(optimizer.lr, ComputeTermDelta(h.reg, d.x, d.m)))

C8_Witness ==
    /\ optimizer.kind \in {"Momentum", "Adam"}
    /\ initialized
    /\ \E i \in Calls : IsL2(hist[i].reg) /\ Completed(hist[i]) /\ hist[i].after.decays # <<>>
    /\ layers # reference.layers
    /\ layer_v = reference.layer_v
    /\ \E l \in 1..Len(layers) : "dW" \in DOMAIN layer_v[l] /\ ~IsZeroArr(layer_v[l]["dW"])

(***************************************************************************)
(* C9 as stated: within one update_params call the (layer, key) pairs are  *)
(* independent, so the final parameters and moment buffers are the same    *)
(* for every order in which the pairs are processed.                       *)
(***************************************************************************)
AllPairs(ls) == {CodeOrder(ls)[i] : i \in 1..Len(CodeOrder(ls))}

SameOutcome(a, b) ==
    /\ a.layers = b.layers
    /\ a.layer_v = b.layer_v
    /\ a.layer_s = b.layer_s

OrderIndependent(h) ==
    \A order \in Perms(AllPairs(h.before.layers)) :
        SameOutcome(UpdateInOrder(optimizer, h.before, order, h.t, h.m, h.reg), h.after)

MomentsOfPair(st, p) ==
    IF st.initialized
    THEN <<st.layer_v[p[1]][GradKey(p[2])],
           IF optimizer.kind = "Adam" THEN st.layer_s[p[1]][GradKey(p[2])] ELSE <<>> >>
    ELSE <<>>

=============================================================================
